---- MODULE Spec2Model ----
(***************************************************************************)
(* A model of ghcc's repository store (src/ghcc/database.py) and of the    *)
(* failure analysis script (src/analyze_fails.py).                         *)
(*                                                                         *)
(* Representation.  A Python string that the code only splits or joins on  *)
(* "/" (a path, "owner/name") is the sequence of its segments, so          *)
(* s.split("/") is the sequence itself and "/".join(xs) is xs.  A string   *)
(* of decimal digits that the code passes to int() is the sequence of its  *)
(* digits.  Raised exceptions are recorded in the variable raised.         *)
(***************************************************************************)
EXTENDS Integers, Sequences, FiniteSets, TLC

VARIABLES
    collection,     \* Database.collection: the stored documents, in insertion order
    prev,           \* the collection as it was when the last store call began
    call,           \* the last call made: its name and arguments
    raised,         \* the exception the last call raised, "None" if it returned
    returned,       \* the value the last count_* call returned
    rows,           \* the CSV rows the last reconciliation pass wrote
    logs,           \* analyze_logs: the lines of the log file read so far
    repo_info,      \* analyze_logs: repo_full_name -> tag -> samples
    pc,             \* main: the statement the analysis script is at
    arg_repo_info,  \* changed_repos: the mapping it was called with
    changed,        \* main: the result of changed_repos
    sample_size,    \* main: the size asked of np.random.choice
    repos_with_fail,\* main: the candidate population, in mapping order
    samples,        \* main: the indices np.random.choice returned
    _repo_samples,  \* main: the repositories at those indices
    repo_samples    \* main: the sampled repositories kept after the size filter

dbvars == <<collection, prev, call, raised, returned, rows>>
logvars == <<logs, repo_info, pc, arg_repo_info, changed, sample_size,
             repos_with_fail, samples, _repo_samples, repo_samples>>
vars == <<collection, prev, call, raised, returned, rows, logs, repo_info, pc,
          arg_repo_info, changed, sample_size, repos_with_fail, samples,
          _repo_samples, repo_samples>>

(***************************************************************************)
(* Bounds of the model.                                                    *)
(***************************************************************************)
MaxMakefiles == 2   \* longest makefiles list handed to update_makefile
MaxFound == 2       \* most build-script directories find_makefiles reports
MaxLines == 3       \* most lines in the log file
MaxSample == 3      \* largest sample size requested

RECURSIVE SeqsUpTo(_, _)
SeqsUpTo(S, n) ==
    IF n = 0 THEN {<<>>}
    ELSE LET shorter == SeqsUpTo(S, n - 1)
         IN  shorter \cup {Append(s, x) : s \in {t \in shorter : Len(t) = n - 1}, x \in S}

RECURSIVE SumSeq(_)
SumSeq(s) == IF s = <<>> THEN 0 ELSE Head(s) + SumSeq(Tail(s))

Range(s) == {s[i] : i \in 1..Len(s)}

(***************************************************************************)
(* Inputs of the store.                                                    *)
(***************************************************************************)
RepoOwners == {"foo"}
RepoNames == {"bar", "baz"}
RepoSizes == {-1, 4}

\* RepoMakefileEntry values as callers may build them: the class is a
\* TypedDict, so nothing checks num_binaries against binaries.
MakefileEntries ==
    { [directory |-> <<"", "usr", "src", "repo", "src", "a">>, successful |-> TRUE,
       num_binaries |-> 2, binaries |-> <<"a.out", "b.out">>, sha256 |-> <<"h1", "h2">>],
      [directory |-> <<"", "usr", "src", "repo">>, successful |-> TRUE,
       num_binaries |-> 0, binaries |-> <<"c.out">>, sha256 |-> <<"h3">>] }

MakefileLists == SeqsUpTo(MakefileEntries, MaxMakefiles)

None == [none |-> TRUE]

\* Repositories the analysis may sample: the log names repositories whether or
\* not the store holds them.
SampledRepos == {<<"foo", "bar">>, <<"foo", "baz">>, <<"qux", "bar">>}

(***************************************************************************)
(* Database                                                                *)
(***************************************************************************)
\* Mutant of get: the filter names repo_owner alone.
get_by_owner(repo_owner, repo_name) ==
    LET hits == {i \in 1..Len(collection) : collection[i].repo_owner = repo_owner}
    IN  IF hits = {} THEN None
        ELSE collection[CHOOSE i \in hits : \A j \in hits : i <= j]

\* collection.find_one(filter): the first document with both fields equal.
get(repo_owner, repo_name) ==
    LET hits == {i \in 1..Len(collection) :
                    /\ collection[i].repo_owner = repo_owner
                    /\ collection[i].repo_name = repo_name}
    IN  IF hits = {} THEN None
        ELSE collection[CHOOSE i \in hits : \A j \in hits : i <= j]

\* collection.insert_one(record): the store gives the document a fresh _id.
insert_one(record) ==
    Append(collection, [record EXCEPT !._id = Len(collection) + 1])

\* No store call is in progress and none is remembered.
NoCall == [op |-> "none"]

Returns(c) ==
    /\ prev' = collection
    /\ call' = c
    /\ raised' = "None"
    /\ returned' = 0
    /\ rows' = <<>>

Raises(c, e) ==
    /\ prev' = collection
    /\ call' = c
    /\ raised' = e
    /\ returned' = 0
    /\ rows' = <<>>
    /\ collection' = collection

\* Mutant of add_repo: the record is inserted without looking for an entry first.
add_repo_always_insert(repo_owner, repo_name, clone_successful, repo_size) ==
    /\ call = NoCall
    /\ collection' = insert_one(
                [_id |-> 0,
                 repo_owner |-> repo_owner,
                 repo_name |-> repo_name,
                 clone_successful |-> clone_successful,
                 repo_size |-> repo_size,
                 compiled |-> FALSE,
                 num_makefiles |-> 0,
                 num_binaries |-> 0,
                 makefiles |-> <<>>])
    /\ Returns([op |-> "add_repo", repo_owner |-> repo_owner, repo_name |-> repo_name,
                clone_successful |-> clone_successful, repo_size |-> repo_size])
    /\ UNCHANGED logvars

add_repo(repo_owner, repo_name, clone_successful, repo_size) ==
    /\ call = NoCall
    /\ IF get(repo_owner, repo_name) = None
       THEN collection' = insert_one(
                [_id |-> 0,
                 repo_owner |-> repo_owner,
                 repo_name |-> repo_name,
                 clone_successful |-> clone_successful,
                 repo_size |-> repo_size,
                 compiled |-> FALSE,
                 num_makefiles |-> 0,
                 num_binaries |-> 0,
                 makefiles |-> <<>>])
       ELSE collection' = collection
    /\ Returns([op |-> "add_repo", repo_owner |-> repo_owner, repo_name |-> repo_name,
                clone_successful |-> clone_successful, repo_size |-> repo_size])
    /\ UNCHANGED logvars

\* collection.update_one({"_id": id}, {"$set": fields}): the first document with
\* that _id gets the fields; the others are left alone.
update_one(id, fields) ==
    LET hits == {i \in 1..Len(collection) : collection[i]._id = id}
        first == CHOOSE i \in hits : \A j \in hits : i <= j
    IN  IF hits = {} THEN collection
        ELSE [collection EXCEPT ![first] =
                 [k \in DOMAIN collection[first] |->
                     IF k \in DOMAIN fields THEN fields[k] ELSE collection[first][k]]]

\* result.matched_count of that update_one
matched_count(id) ==
    IF \E i \in 1..Len(collection) : collection[i]._id = id THEN 1 ELSE 0

\* Mutant of sum_binaries: the entries' num_binaries fields are summed.
sum_num_binaries(makefiles) ==
    SumSeq([i \in 1..Len(makefiles) |-> makefiles[i].num_binaries])

\* sum(len(makefile["binaries"]) for makefile in makefiles)
sum_binaries(makefiles) ==
    SumSeq([i \in 1..Len(makefiles) |-> Len(makefiles[i].binaries)])

\* Mutant of length_mismatch: an empty stored list is not exempt.
length_mismatch_strict(entry, makefiles, ignore_length_mismatch) ==
    /\ ~ignore_length_mismatch
    /\ Len(entry.makefiles) # Len(makefiles)

\* not ignore_length_mismatch and len(entry["makefiles"]) not in [0, len(makefiles)]
length_mismatch(entry, makefiles, ignore_length_mismatch) ==
    /\ ~ignore_length_mismatch
    /\ Len(entry.makefiles) \notin {0, Len(makefiles)}

update_makefile(repo_owner, repo_name, makefiles, ignore_length_mismatch) ==
    LET entry == get(repo_owner, repo_name)
        c == [op |-> "update_makefile", repo_owner |-> repo_owner,
              repo_name |-> repo_name, makefiles |-> makefiles,
              ignore_length_mismatch |-> ignore_length_mismatch]
    IN  /\ call = NoCall
        /\ IF entry = None
           THEN Raises(c, "ValueError: does not exist")
           ELSE IF length_mismatch(entry, makefiles, ignore_length_mismatch)
           THEN Raises(c, "ValueError: does not match provided list")
           ELSE /\ collection' = update_one(entry._id,
                        [compiled |-> TRUE,
                         num_makefiles |-> Len(makefiles),
                         num_binaries |-> sum_binaries(makefiles),
                         makefiles |-> makefiles])
                /\ prev' = collection
                /\ call' = c
                /\ raised' = IF matched_count(entry._id) = 1
                             THEN "None" ELSE "AssertionError"
                /\ returned' = 0
                /\ rows' = <<>>
        /\ UNCHANGED logvars

\* The cursor of collection.aggregate([{"$match": {"compiled": True}},
\* {"$group": {"_id": "$compiled", "total": {"$sum": "$<field_name>"}}}]): one
\* group per value of compiled among the matched documents.
aggregate(field_name) ==
    LET matched == SelectSeq(collection, LAMBDA d : d.compiled = TRUE)
        total == SumSeq([i \in 1..Len(matched) |-> matched[i][field_name]])
    IN  IF matched = <<>> THEN <<>> ELSE <<[_id |-> TRUE, total |-> total]>>

\* next(cursor)["total"]: next() of an exhausted cursor raises StopIteration.
_aggregate_sum(c, field_name) ==
    LET cursor == aggregate(field_name)
    IN  /\ call = NoCall
        /\ prev' = collection
        /\ collection' = collection
        /\ call' = c
        /\ rows' = <<>>
        /\ IF cursor = <<>>
           THEN raised' = "StopIteration" /\ returned' = 0
           ELSE raised' = "None" /\ returned' = cursor[1].total
        /\ UNCHANGED logvars

count_makefiles == _aggregate_sum([op |-> "count_makefiles"], "num_makefiles")

count_binaries == _aggregate_sum([op |-> "count_binaries"], "num_binaries")

(***************************************************************************)
(* main, lines 95-108: one pass of the "Writing CSV" loop, for repository  *)
(* repo = owner/name whose clone find_makefiles searched.                  *)
(***************************************************************************)
\* What ghcc.find_makefiles(os.path.join("test_compile", repo)) may report:
\* directories under the clone, each once.
SubDirs == {<<"src", "a">>, <<"src", "c">>}

FoundLists(repo) ==
    {[i \in 1..Len(s) |-> <<"test_compile">> \o repo \o s[i]] :
        s \in {t \in SeqsUpTo(SubDirs, MaxFound) :
                  \A i, j \in 1..Len(t) : i # j => t[i] # t[j]}}

\* "/".join([owner, name] + directory.split("/")[4:]), for each stored makefile
success_makefiles(owner, name, entry) ==
    {<<owner, name>> \o SubSeq(m.directory, 5, Len(m.directory)) :
        m \in Range(entry.makefiles)}

\* directory = "/".join(makefile.split("/")[1:]) and its row
csv_row(repo, makefile, success) ==
    LET directory == Tail(makefile)
    IN  <<repo, directory, IF directory \in success THEN "" ELSE "Failed">>

write_csv(repo, makefiles) ==
    LET owner == repo[1]
        name == repo[2]
        entry == get(owner, name)
        c == [op |-> "write_csv", repo |-> repo, makefiles |-> makefiles]
    IN  /\ call = NoCall
        /\ prev' = collection
        /\ collection' = collection
        /\ call' = c
        /\ returned' = 0
        /\ IF entry = None
           THEN \* entry['makefiles'] on None
                /\ raised' = "TypeError"
                /\ rows' = <<>>
           ELSE /\ raised' = "None"
                /\ rows' = [i \in 1..Len(makefiles) |->
                              csv_row(repo, makefiles[i],
                                      success_makefiles(owner, name, entry))]
        /\ UNCHANGED logvars

\* The caller has taken the outcome of the last call and goes on: what the model
\* remembers of that call is dropped, the store stays as it is.
Return ==
    /\ call # NoCall
    /\ call' = NoCall
    /\ prev' = <<>>
    /\ raised' = "None"
    /\ returned' = 0
    /\ rows' = <<>>
    /\ UNCHANGED <<collection>>
    /\ UNCHANGED logvars

(***************************************************************************)
(* analyze_fails.py                                                        *)
(***************************************************************************)
TAGS == <<"n_partial", "n_binaries", "n_total">>

\* Repositories the log may name, as (repo_owner, repo_name).
LogRepos == SampledRepos

\* The date_time strings of the log; they have one fixed format, so they are
\* numbered in their lexicographic order.
Timestamps == {1, 2}

\* The count fields of a summary line, as the digit strings the log holds.
CountFields ==
    { [n_success |-> <<3>>, n_partial |-> <<2>>, n_total |-> <<5>>, n_binaries |-> <<4>>],
      [n_success |-> <<5>>, n_partial |-> <<5>>, n_total |-> <<0, 5>>, n_binaries |-> <<4>>] }

\* A line that has the form of the pattern, with the groups the pattern names.
SummaryLines ==
    { [kind |-> "summary", date_time |-> t, repo_owner |-> r[1], repo_name |-> r[2],
       n_success |-> c.n_success, n_partial |-> c.n_partial, n_total |-> c.n_total,
       n_binaries |-> c.n_binaries] :
        t \in Timestamps, r \in LogRepos, c \in CountFields }

\* Lines of any other form: the empty string that split("\n") leaves after the
\* last line break, and log messages about something else.
OtherLines == { [kind |-> "blank"], [kind |-> "other"] }

Lines == SummaryLines \cup OtherLines

\* regex.search(line): a match object for a line of the pattern's form, else None
regex_search(line) == IF line.kind = "summary" THEN line ELSE None

\* int(s) of a string of decimal digits
RECURSIVE int(_)
int(s) == IF s = <<>> THEN 0 ELSE 10 * int(SubSeq(s, 1, Len(s) - 1)) + s[Len(s)]

\* Mutant of append: the sample is put at the front.
prepend(xs, x) == <<x>> \o xs

\* list.append
append(xs, x) == Append(xs, x)

\* The defaultdict's factory: {tag: [] for tag in TAGS}
default_info == [tag \in Range(TAGS) |-> <<>>]

\* The position of repo_full_name in the mapping, 0 if it is no key of it.
index_of(mapping, repo_full_name) ==
    LET hits == {i \in 1..Len(mapping) : mapping[i].repo = repo_full_name}
    IN  IF hits = {} THEN 0 ELSE CHOOSE i \in hits : TRUE

\* mapping[repo_full_name]
item(mapping, repo_full_name) == mapping[index_of(mapping, repo_full_name)].info

\* Mutant of values: the (date_time, value) samples are compared whole.
values_with_time(vals) == vals

\* [v for _, v in vals]
values(vals) == [i \in 1..Len(vals) |-> vals[i][2]]

all_equal(xs) == xs = <<>> \/ \A i \in 2..Len(xs) : xs[i] = xs[1]

\* The body of the for loop of analyze_logs for one line: repo_info after it.
\* repo_info[repo_full_name] makes the key, at the end of the mapping, if it is new.
loop_body(line) ==
    LET match == regex_search(line)
        repo_full_name == <<match.repo_owner, match.repo_name>>
        with_key == IF index_of(repo_info, repo_full_name) = 0
                    THEN Append(repo_info, [repo |-> repo_full_name, info |-> default_info])
                    ELSE repo_info
        k == index_of(with_key, repo_full_name)
    IN  IF match = None THEN repo_info
        ELSE [with_key EXCEPT ![k].info =
                 [tag \in Range(TAGS) |->
                     append(with_key[k].info[tag], <<match.date_time, int(match[tag])>>)]]

\* analyze_logs, one turn of its loop, on the next line of the file.
analyze_logs_line(line) ==
    /\ pc = "analyze_logs"
    /\ Len(logs) < MaxLines
    /\ logs' = Append(logs, line)
    /\ repo_info' = loop_body(line)
    /\ UNCHANGED <<pc, arg_repo_info, changed, sample_size, repos_with_fail, samples,
                   _repo_samples, repo_samples>>
    /\ UNCHANGED dbvars

\* analyze_logs returns at the end of the file.
analyze_logs_return ==
    /\ pc = "analyze_logs"
    /\ pc' = "changed_repos"
    /\ UNCHANGED <<logs, repo_info, arg_repo_info, changed, sample_size, repos_with_fail,
                   samples, _repo_samples, repo_samples>>
    /\ UNCHANGED dbvars

\* The result of changed_repos(repo_info), in the mapping's order.
changed_of(mapping) ==
    SelectSeq(mapping,
              LAMBDA e : \E tag \in DOMAIN e.info : ~all_equal(values(e.info[tag])))

changed_repos ==
    /\ pc = "changed_repos"
    /\ arg_repo_info' = repo_info
    /\ changed' = changed_of(repo_info)
    /\ pc' = "sample"
    /\ UNCHANGED <<logs, repo_info, sample_size, repos_with_fail, samples,
                   _repo_samples, repo_samples>>
    /\ UNCHANGED dbvars

\* a < b on (date_time, value) tuples, as Python orders tuples
tuple_less(a, b) == a[1] < b[1] \/ (a[1] = b[1] /\ a[2] < b[2])

last(xs) == xs[Len(xs)]

\* [repo for repo, info in repo_info.items()
\*  if info["n_partial"][-1] < info["n_total"][-1]]
failed_repos(mapping) ==
    LET kept == SelectSeq(mapping,
                    LAMBDA e : tuple_less(last(e.info["n_partial"]), last(e.info["n_total"])))
    IN  [i \in 1..Len(kept) |-> kept[i].repo]

\* Mutant of np_random_choice: replace=True, so an index may be drawn again.
choice_with_replacement(n, size) == [1..size -> 0..(n - 1)]

\* What np.random.choice(n, size, replace=False) may return: size indices below
\* n, all different, in any order; none when size > n, where it raises ValueError.
np_random_choice(n, size) ==
    {s \in [1..size -> 0..(n - 1)] : \A i, j \in 1..size : i # j => s[i] # s[j]}

\* A sampled repository is dropped when its latest n_total is above this.
Ceiling == 50

\* main, lines 69-81: the sample of failed repositories, of the size asked.
sample(size) ==
    LET population == failed_repos(repo_info)
        draws == np_random_choice(Len(population), size)
    IN  /\ pc = "sample"
        /\ sample_size' = size
        /\ repos_with_fail' = population
        /\ IF draws = {}
           THEN /\ pc' = "ValueError"
                /\ UNCHANGED <<samples, _repo_samples, repo_samples>>
           ELSE \E drawn \in draws :
                   LET picked == [i \in 1..size |-> population[drawn[i] + 1]]
                   IN  /\ samples' = drawn
                       /\ _repo_samples' = picked
                       /\ repo_samples' =
                              SelectSeq(picked,
                                  LAMBDA repo :
                                      last(item(repo_info, repo)["n_total"])[2] <= Ceiling)
                       /\ pc' = "clone"
        /\ UNCHANGED <<logs, repo_info, arg_repo_info, changed>>
        /\ UNCHANGED dbvars

InitDB ==
    /\ collection = <<>>
    /\ prev = <<>>
    /\ call = NoCall
    /\ raised = "None"
    /\ returned = 0
    /\ rows = <<>>

InitLog ==
    /\ logs = <<>>
    /\ repo_info = <<>>
    /\ pc = "analyze_logs"
    /\ arg_repo_info = <<>>
    /\ changed = <<>>
    /\ sample_size = 0
    /\ repos_with_fail = <<>>
    /\ samples = <<>>
    /\ _repo_samples = <<>>
    /\ repo_samples = <<>>

Init == InitDB /\ InitLog

Next ==
    \/ \E o \in RepoOwners, n \in RepoNames, c \in BOOLEAN, s \in RepoSizes :
          add_repo(o, n, c, s)
    \/ \E o \in RepoOwners, n \in RepoNames, m \in MakefileLists, ign \in BOOLEAN :
          update_makefile(o, n, m, ign)
    \/ count_makefiles
    \/ count_binaries
    \/ \E repo \in SampledRepos : \E found \in FoundLists(repo) :
          write_csv(repo, found)
    \/ Return

Spec == Init /\ [][Next]_vars

NextLog ==
    \/ \E line \in Lines : analyze_logs_line(line)
    \/ analyze_logs_return
    \/ changed_repos
    \/ \E size \in 1..MaxSample : sample(size)

SpecLog == Init /\ [][NextLog]_vars
(***************************************************************************)
(* The properties checked.                                                 *)
(***************************************************************************)
\* The positions in coll of the documents for (owner, name).
DocsFor(coll, owner, name) ==
    {i \in 1..Len(coll) : coll[i].repo_owner = owner /\ coll[i].repo_name = name}

StoreKeys == {<<o, n>> : o \in RepoOwners, n \in RepoNames}

\* The number of binaries the entries of a makefiles list name.
BinariesIn(makefiles) ==
    Cardinality(UNION {{<<i, j>> : j \in 1..Len(makefiles[i].binaries)} :
                          i \in 1..Len(makefiles)})

\* C1: add_repo is first-write-wins.  The first add_repo for a key appends one
\* entry with the given clone_successful and repo_size, compiled=False,
\* num_makefiles=0, num_binaries=0 and makefiles=[], which get then returns; a
\* later add_repo for the key, whatever its arguments, leaves the whole store as
\* it was; and the store never holds two entries for one (owner, name).
C1_AddRepoFirstWriteWins ==
    /\ \A k \in StoreKeys : Cardinality(DocsFor(collection, k[1], k[2])) <= 1
    /\ call.op = "add_repo" =>
          LET o == call.repo_owner
              n == call.repo_name
              got == get(o, n)
          IN  /\ raised = "None"
              /\ got # None
              /\ IF DocsFor(prev, o, n) = {}
                 THEN /\ Len(collection) = Len(prev) + 1
                      /\ SubSeq(collection, 1, Len(prev)) = prev
                      /\ got = collection[Len(collection)]
                      /\ got.repo_owner = o
                      /\ got.repo_name = n
                      /\ got.clone_successful = call.clone_successful
                      /\ got.repo_size = call.repo_size
                      /\ got.compiled = FALSE
                      /\ got.num_makefiles = 0
                      /\ got.num_binaries = 0
                      /\ got.makefiles = <<>>
                 ELSE collection = prev

\* C1's case: add_repo on a key whose entry was compiled and was added with the
\* other clone_successful and repo_size, while another entry is stored too.
C1_Witness ==
    /\ call.op = "add_repo"
    /\ Len(prev) = 2
    /\ \E i \in DocsFor(prev, call.repo_owner, call.repo_name) :
          /\ prev[i].compiled
          /\ prev[i].makefiles # <<>>
          /\ prev[i].clone_successful # call.clone_successful
          /\ prev[i].repo_size # call.repo_size

\* C2: a successful update_makefile changes the one record for (owner, name)
\* and no other: that record then has compiled=True, num_makefiles the length
\* of the given list, num_binaries the number of binaries its entries list,
\* makefiles the given list, and its clone_successful and repo_size as before.
C2_UpdateOverwritesOneRecord ==
    (call.op = "update_makefile" /\ raised = "None") =>
        LET hit == DocsFor(collection, call.repo_owner, call.repo_name)
        IN  /\ Len(collection) = Len(prev)
            /\ Cardinality(hit) = 1
            /\ \A i \in 1..Len(collection) :
                  IF i \in hit
                  THEN /\ collection[i].compiled = TRUE
                       /\ collection[i].num_makefiles = Len(call.makefiles)
                       /\ collection[i].num_binaries = BinariesIn(call.makefiles)
                       /\ collection[i].makefiles = call.makefiles
                       /\ collection[i].clone_successful = prev[i].clone_successful
                       /\ collection[i].repo_size = prev[i].repo_size
                       /\ collection[i].repo_owner = prev[i].repo_owner
                       /\ collection[i].repo_name = prev[i].repo_name
                       /\ collection[i]._id = prev[i]._id
                  ELSE collection[i] = prev[i]

\* C2's case: with two entries stored, a list of two makefiles replaces another
\* list of two, and the binaries it names are not as many as its entries.
C2_Witness ==
    /\ call.op = "update_makefile"
    /\ raised = "None"
    /\ Len(collection) = 2
    /\ Len(call.makefiles) = 2
    /\ BinariesIn(call.makefiles) = 3
    /\ \E i \in DocsFor(prev, call.repo_owner, call.repo_name) :
          Len(prev[i].makefiles) = 2 /\ prev[i].makefiles # call.makefiles

\* C3: for an existing entry, update_makefile without the override fails with
\* the length-mismatch error exactly when the stored makefiles list is not
\* empty and its length is not that of the new list; the failure leaves the
\* store as it was; with the override the call succeeds.  So without the
\* override a non-empty list is only replaced by a list of its own length.
C3_LengthMismatch ==
    (call.op = "update_makefile"
        /\ DocsFor(prev, call.repo_owner, call.repo_name) # {}) =>
        \A i \in DocsFor(prev, call.repo_owner, call.repo_name) :
            LET old == prev[i].makefiles
                mismatch == raised = "ValueError: does not match provided list"
            IN  /\ ~call.ignore_length_mismatch =>
                      (mismatch <=> (old # <<>> /\ Len(old) # Len(call.makefiles)))
                /\ mismatch => collection = prev
                /\ call.ignore_length_mismatch => raised = "None"
                /\ ~mismatch => raised = "None"
                /\ (raised = "None" /\ ~call.ignore_length_mismatch /\ old # <<>>) =>
                      Len(collection[i].makefiles) = Len(old)

\* C3's case: an empty list offered for a stored list of two is refused.
C3_Witness ==
    /\ call.op = "update_makefile"
    /\ raised = "ValueError: does not match provided list"
    /\ call.makefiles = <<>>
    /\ \E i \in DocsFor(prev, call.repo_owner, call.repo_name) :
          Len(prev[i].makefiles) = 2

\* C4: update_makefile on a key with no entry fails with the not-found error,
\* with or without the override, and the store is as it was: no entry for the
\* key and no other entry changed.
C4_UpdateAbsentKey ==
    (call.op = "update_makefile"
        /\ DocsFor(prev, call.repo_owner, call.repo_name) = {}) =>
        /\ raised = "ValueError: does not exist"
        /\ collection = prev
        /\ DocsFor(collection, call.repo_owner, call.repo_name) = {}

\* C4's case: the override is set and the store holds a compiled entry for
\* another repository of the same owner.
C4_Witness ==
    /\ call.op = "update_makefile"
    /\ call.ignore_length_mismatch
    /\ call.makefiles # <<>>
    /\ DocsFor(prev, call.repo_owner, call.repo_name) = {}
    /\ Len(prev) = 1
    /\ prev[1].compiled
    /\ prev[1].repo_owner = call.repo_owner

\* The sum of a field over the compiled entries of a store.
CompiledSum(coll, field) ==
    LET compiled == SelectSeq(coll, LAMBDA d : d.compiled)
    IN  SumSeq([i \in 1..Len(compiled) |-> compiled[i][field]])

\* C5: count_makefiles() returns the sum of num_makefiles, and
\* count_binaries() the sum of num_binaries, over the entries with
\* compiled=True (0 when there is none), and neither changes the store.
C5_CountsAreSums ==
    /\ call.op = "count_makefiles" =>
          /\ raised = "None"
          /\ returned = CompiledSum(prev, "num_makefiles")
          /\ collection = prev
    /\ call.op = "count_binaries" =>
          /\ raised = "None"
          /\ returned = CompiledSum(prev, "num_binaries")
          /\ collection = prev

StoredRelative(directory) == SubSeq(directory, 5, Len(directory))

\* A discovered directory, relative to the repository root: it lies under
\* test_compile/<owner>/<name>.
FoundRelative(makefile) == SubSeq(makefile, 4, Len(makefile))

\* The directories recorded as successful for repo in the store coll: none when
\* the store has no entry for it.
RecordedSuccessful(coll, repo) ==
    {StoredRelative(m.directory) :
        m \in UNION {Range(coll[i].makefiles) : i \in DocsFor(coll, repo[1], repo[2])}}

\* C9: the reconciliation of a sampled repository writes one row per discovered
\* directory and no other; the row's status is empty when the directory is the
\* root-relative form of a stored entry's directory and "Failed" otherwise; with
\* no entry in the store every discovered directory gets a "Failed" row.
C9_ReconciliationRows ==
    call.op = "write_csv" =>
        /\ raised = "None"
        /\ Len(rows) = Len(call.makefiles)
        /\ \A i \in 1..Len(rows) :
              /\ rows[i][1] = call.repo
              /\ rows[i][2] = Tail(call.makefiles[i])
              /\ rows[i][3] =
                    IF FoundRelative(call.makefiles[i]) \in RecordedSuccessful(prev, call.repo)
                    THEN "" ELSE "Failed"

\* The summary lines among lines that name repo, in their order.
MatchingFor(lines, repo) ==
    SelectSeq(lines,
              LAMBDA l : l.kind = "summary" /\ <<l.repo_owner, l.repo_name>> = repo)

RECURSIVE Pow10(_)
Pow10(n) == IF n = 0 THEN 1 ELSE 10 * Pow10(n - 1)

\* The value of a string of decimal digits.
RECURSIVE Decimal(_)
Decimal(s) == IF s = <<>> THEN 0 ELSE Head(s) * Pow10(Len(s) - 1) + Decimal(Tail(s))

\* C10: after any prefix of the log, each repository's series for each tracked
\* tag holds one (timestamp, value) sample per line seen that matches the
\* repository, in the order of the lines; lines that do not match add
\* nothing, and the mapping's keys are the repositories some line matched.
C10_SeriesFollowLines ==
    /\ \A i, j \in 1..Len(repo_info) : repo_info[i].repo = repo_info[j].repo => i = j
    /\ \A r \in LogRepos :
          MatchingFor(logs, r) # <<>> <=> \E i \in 1..Len(repo_info) : repo_info[i].repo = r
    /\ \A i \in 1..Len(repo_info) :
          LET m == MatchingFor(logs, repo_info[i].repo)
          IN  /\ DOMAIN repo_info[i].info = Range(TAGS)
              /\ \A tag \in Range(TAGS) :
                    repo_info[i].info[tag] =
                        [k \in 1..Len(m) |-> <<m[k].date_time, Decimal(m[k][tag])>>]

\* C10's case: a line that does not match lies between two lines for one
\* repository that differ in timestamp and in n_partial.
C10_Witness ==
    /\ Len(logs) = 3
    /\ logs[1].kind = "summary"
    /\ logs[2].kind # "summary"
    /\ logs[3].kind = "summary"
    /\ logs[1].repo_owner = logs[3].repo_owner
    /\ logs[1].repo_name = logs[3].repo_name
    /\ logs[1].date_time # logs[3].date_time
    /\ logs[1].n_partial # logs[3].n_partial
    /\ Len(repo_info) = 1

\* Whether some tag of info has two recorded values that differ.
HasChange(info) ==
    \E tag \in DOMAIN info : \E i, j \in 1..Len(info[tag]) :
        info[tag][i][2] # info[tag][j][2]

\* C8: changed_repos returns exactly the repositories of its input that have a
\* tag with two differing recorded values, each with its series as given, and
\* leaves its input as it was.
C8_ChangedRepos ==
    pc \in {"sample", "clone", "ValueError"} =>
        /\ repo_info = arg_repo_info
        /\ \A e \in Range(arg_repo_info) : e \in Range(changed) <=> HasChange(e.info)
        /\ Range(changed) \subseteq Range(arg_repo_info)
        /\ Cardinality(Range(changed)) = Len(changed)

\* C8's case: of two repositories one has a single sample per tag and is not
\* returned; the other is returned for its n_partial values, its two n_total
\* values being equal and recorded at different times.
C8_Witness ==
    /\ pc = "sample"
    /\ Len(arg_repo_info) = 2
    /\ Len(changed) = 1
    /\ \E e \in Range(arg_repo_info) :
          e \notin Range(changed) /\ Len(e.info["n_total"]) = 1
    /\ LET info == changed[1].info
       IN  /\ info["n_partial"][1][2] # info["n_partial"][2][2]
           /\ info["n_total"][1][2] = info["n_total"][2][2]
           /\ info["n_total"][1][1] # info["n_total"][2][1]

\* The repositories whose latest n_partial value is below their latest n_total
\* value.
CandidatePopulation ==
    {repo_info[i].repo : i \in {k \in 1..Len(repo_info) :
        repo_info[k].info["n_partial"][Len(repo_info[k].info["n_partial"])][2]
            < repo_info[k].info["n_total"][Len(repo_info[k].info["n_total"])][2]}}

\* C7: asking for more samples than the candidate population holds fails with
\* an error; a draw that succeeds has the size asked, no repository twice, and
\* only repositories of the candidate population.
C7_Sampler ==
    /\ pc = "ValueError" => sample_size > Cardinality(CandidatePopulation)
    /\ pc = "clone" =>
          /\ sample_size <= Cardinality(CandidatePopulation)
          /\ Len(_repo_samples) = sample_size
          /\ Cardinality(Range(_repo_samples)) = sample_size
          /\ Range(_repo_samples) \subseteq CandidatePopulation

\* C7's case: both candidates are drawn, and the log names a third repository
\* that is no candidate.
C7_Witness ==
    /\ pc = "clone"
    /\ sample_size = 2
    /\ Len(repo_info) = 3
    /\ Cardinality(CandidatePopulation) = 2
====
